---- MODULE Spec2Model ----
(***************************************************************************)
(* Model of the rag-pipeline-classic application (src/apps):               *)
(*   - ingestion.py : clean_text, create_chunks, ingest_document           *)
(*   - embedding.py : is_file_ingested, upsert_chunks                      *)
(*   - retrieval.py / reranker.py / generation.py / api.py : /chat flow    *)
(* Text is a sequence of one-character strings.                            *)
(***************************************************************************)
EXTENDS Integers, Sequences, FiniteSets, TLC

\* ------------------------------------------------------------------ bounds
\* Longest raw text of a whole document (sum over its pages).
MaxDocLen == 4
\* Most pages a document holds.
MaxPages == 2
\* create_chunks is called with chunk_size in 1..MaxChunkSize, overlap in 0..MaxOverlap.
MaxChunkSize == 3
MaxOverlap == 4
\* config.py:9-10 sets CHUNK_SIZE = 512 and CHUNK_OVERLAP = 64; the model scales
\* the two defaults down so that a document of a few characters spans chunks
\* (they bound the model; the step CHUNK_SIZE - CHUNK_OVERLAP stays positive).
CHUNK_SIZE == 4
CHUNK_OVERLAP == 1
\* /chat is asked with top_k in -1..MaxTopK and top_n in -1..MaxTopN (ChatRequest
\* takes any int), and a question of at most MaxQuestionLen characters.
MaxTopK == 2
MaxTopN == 2
MaxQuestionLen == 2
\* upsert_chunks has batch_size = 96 (embedding.py:64); scaled down so that a
\* file of three records takes two upsert calls.
BatchSize == 2
\* Concurrent ingestion runs.
NumRuns == 2

\* ------------------------------------------------------------ text helpers
Alphabet == {"a", "b", " ", "\n"}
\* The characters Python's \s and str.strip() treat as whitespace.
Whitespace == {" ", "\n"}
\* Page numbers a reader can give (i + 1 of a page that holds text).
PageNumbers == {1, 2, 8}

Min(a, b) == IF a < b THEN a ELSE b
Max(a, b) == IF a > b THEN a ELSE b

\* Python's s[i:j] for 0 <= i and 0 <= j.
Slice(s, i, j) == SubSeq(s, i + 1, Min(j, Len(s)))

RECURSIVE LStrip(_)
LStrip(s) ==
    IF s # <<>> /\ Head(s) \in Whitespace THEN LStrip(Tail(s)) ELSE s

RECURSIVE RStrip(_)
RStrip(s) ==
    IF s # <<>> /\ s[Len(s)] \in Whitespace
    THEN RStrip(SubSeq(s, 1, Len(s) - 1))
    ELSE s

\* str.strip()
Strip(s) == RStrip(LStrip(s))

\* re.sub(r'\s+', ' ', text): every maximal whitespace run becomes one space.
RECURSIVE CollapseWs(_)
CollapseWs(s) ==
    IF s = <<>> THEN <<>>
    ELSE IF Head(s) \in Whitespace
         THEN <<" ">> \o CollapseWs(LStrip(Tail(s)))
         ELSE <<Head(s)>> \o CollapseWs(Tail(s))

clean_text(text) == Strip(CollapseWs(text))

\* [v] * n
Repeat(v, n) == [k \in 1..n |-> v]

\* ------------------------------------------------- list(set(...)) in CPython
\* A set of up to four small ints lives in an 8-slot table (mask 7, no resize
\* below five entries); hash(n) = n; a key goes to slot n & 7 and, on a
\* collision, to (i * 5 + 1 + perturb) & 7 with perturb >>= 5 each round.
\* Iteration walks the slots in index order.  0 marks an unused slot.
RECURSIVE SetProbe(_, _, _, _)
SetProbe(table, key, i, perturb) ==
    IF table[i] = 0 \/ table[i] = key THEN i
    ELSE SetProbe(table, key,
                  (i * 5 + 1 + (perturb \div 32)) % 8,
                  perturb \div 32)

SetAdd(table, key) ==
    [table EXCEPT ![SetProbe(table, key, key % 8, key)] = key]

RECURSIVE SetFromList(_, _)
SetFromList(table, lst) ==
    IF lst = <<>> THEN table
    ELSE SetFromList(SetAdd(table, Head(lst)), Tail(lst))

RECURSIVE SlotsInOrder(_, _)
SlotsInOrder(table, i) ==
    IF i > 7 THEN <<>>
    ELSE (IF table[i] = 0 THEN <<>> ELSE <<table[i]>>) \o SlotsInOrder(table, i + 1)

\* list(set(lst))
ListOfSet(lst) == SlotsInOrder(SetFromList([i \in 0..7 |-> 0], lst), 0)

\* ------------------------------------------------------------ create_chunks
\* The loop of lines 43-50 over pages[k..], from (full_text, page_map).
RECURSIVE ConcatPages(_, _, _, _)
ConcatPages(pgs, k, full_text, page_map) ==
    IF k > Len(pgs) THEN [full_text |-> full_text, page_map |-> page_map]
    ELSE LET text == clean_text(pgs[k].text)
             n == pgs[k].page_number
         IN IF text = <<>> THEN ConcatPages(pgs, k + 1, full_text, page_map)
            ELSE IF full_text # <<>>
                 THEN ConcatPages(pgs, k + 1,
                                  full_text \o <<" ">> \o text,
                                  page_map \o <<n>> \o Repeat(n, Len(text)))
                 ELSE ConcatPages(pgs, k + 1,
                                  full_text \o text,
                                  page_map \o Repeat(n, Len(text)))

\* A range that also yields a start equal to stop (i <= stop for i < stop).
RECURSIVE RangeFromInclusive(_, _, _)
RangeFromInclusive(i, stop, step) ==
    IF step > 0 /\ i <= stop THEN <<i>> \o RangeFromInclusive(i + step, stop, step)
    ELSE IF step < 0 /\ i > stop THEN <<i>> \o RangeFromInclusive(i + step, stop, step)
    ELSE <<>>

\* range(0, stop, step) for step # 0, as the sequence of its values.
RECURSIVE RangeFrom(_, _, _)
RangeFrom(i, stop, step) ==
    IF step > 0 /\ i < stop THEN <<i>> \o RangeFrom(i + step, stop, step)
    ELSE IF step < 0 /\ i > stop THEN <<i>> \o RangeFrom(i + step, stop, step)
    ELSE <<>>

\* One chunk of the loop of lines 53-59.
MakeChunk(full_text, page_map, i, c) ==
    [chunk_text |-> Slice(full_text, i, i + c),
     page_numbers |-> ListOfSet(Slice(page_map, i, i + c))]

\* create_chunks(pages, chunk_size, overlap): the chunk list, or the ValueError
\* that range() raises for a zero step.
create_chunks(pgs, c, o) ==
    LET cat == ConcatPages(pgs, 1, <<>>, <<>>)
        step == c - o
    IN IF step = 0
       THEN [status |-> "ValueError", chunks |-> <<>>,
             full_text |-> cat.full_text, page_map |-> cat.page_map]
       ELSE LET starts == RangeFrom(0, Len(cat.full_text), step)
            IN [status |-> "returned",
                chunks |-> [k \in 1..Len(starts) |->
                              MakeChunk(cat.full_text, cat.page_map, starts[k], c)],
                full_text |-> cat.full_text, page_map |-> cat.page_map]

\* ---------------------------------------------------------- ingest_document
\* extract_pages_from_pdf: a page is kept when its text is not blank.
RECURSIVE extract_pages_from_pdf(_)
extract_pages_from_pdf(reader) ==
    IF reader = <<>> THEN <<>>
    ELSE (IF Strip(Head(reader).text) # <<>> THEN <<Head(reader)>> ELSE <<>>)
         \o extract_pages_from_pdf(Tail(reader))

\* str(num) for num >= 0, as decimal digits.
Digit(d) == <<"0", "1", "2", "3", "4", "5", "6", "7", "8", "9">>[d + 1]

RECURSIVE Str(_)
Str(n) == IF n < 10 THEN <<Digit(n)>> ELSE Str(n \div 10) \o <<Digit(n % 10)>>

\* ",".join(str(num) for num in nums)
RECURSIVE JoinPages(_)
JoinPages(nums) ==
    IF nums = <<>> THEN <<>>
    ELSE IF Len(nums) = 1 THEN Str(Head(nums))
    ELSE Str(Head(nums)) \o <<",">> \o JoinPages(Tail(nums))

\* An id that leaves the file name out: f"chunk_{ix+1}".
ChunkIdWithoutSource(file_name, ix) == <<<<>>, ix + 1>>

\* f"{file_name}::chunk_{ix+1}" is kept as the pair it is built from.
ChunkId(file_name, ix) == <<file_name, ix + 1>>

\* ingest_document on a PDF named file_name whose reader gives `reader`.
ingest_document(file_name, reader) ==
    LET chunks == create_chunks(extract_pages_from_pdf(reader),
                                CHUNK_SIZE, CHUNK_OVERLAP).chunks
    IN [k \in 1..Len(chunks) |->
          [id |-> ChunkId(file_name, k - 1),
           chunk_text |-> chunks[k].chunk_text,
           source |-> file_name,
           pages |-> JoinPages(chunks[k].page_numbers)]]

\* ------------------------------------------------------------------ state
VARIABLES
    \* chunking: the pages handed to create_chunks / read by ingest_document,
    \* the chunking parameters, and what each call gave
    pages, chunk_size, overlap, chunked, records,
    \* the vector index: whether it exists and the records it holds
    index,
    \* a /chat request, the generation credential, the service's relevance
    \* order of the index records for the question
    question, use_reranker, top_k, top_n, debug, api_key, ranking,
    \* chat_endpoint: its position, its locals, its response, the functions it
    \* has invoked and the external calls made so far
    pc, retrieved_hits, reranked_hits, context_hits, answer, response,
    invoked, calls,
    \* ingestion runs (ingest_document, then upsert_chunks), one record each
    runs

chunkVars == <<pages, chunk_size, overlap, chunked, records>>
requestVars == <<question, use_reranker, top_k, top_n, debug, api_key, ranking>>
chatVars == <<pc, retrieved_hits, reranked_hits, context_hits, answer, response,
              invoked, calls>>
vars == <<chunkVars, index, requestVars, chatVars, runs>>

\* ----------------------------------------------------------- chunking runs
Texts(n) == UNION {[1..k -> Alphabet] : k \in 0..n}

\* Page lists a reader gives: at most `count` pages, page numbers ascending
\* from minPage, at most `budget` characters in all.
RECURSIVE DocsFrom(_, _, _)
DocsFrom(minPage, budget, count) ==
    IF count = 0 THEN {<<>>}
    ELSE {<<>>} \cup
         UNION {UNION {{<<[page_number |-> n, text |-> t]>> \o rest :
                          rest \in DocsFrom(n + 1, budget - Len(t), count - 1)} :
                       t \in Texts(budget)} :
                n \in {m \in PageNumbers : m >= minPage}}

\* Documents of up to `count` pages / of exactly one page.
Docs(count) == DocsFrom(1, MaxDocLen, count)
SinglePageDocs(count) == {d \in Docs(count) : Len(d) = 1}

NotCalled == [status |-> "none"]

InitChunkWith(docs) ==
    /\ pages \in docs
    /\ chunk_size \in 1..MaxChunkSize
    /\ overlap \in 0..MaxOverlap
    /\ chunked = NotCalled
    /\ records = NotCalled
    /\ index = [exists |-> FALSE, records |-> {}]
    /\ question = <<>> /\ use_reranker = FALSE /\ top_k = 0 /\ top_n = 0
    /\ debug = FALSE /\ api_key = FALSE /\ ranking = <<>>
    /\ pc = "idle" /\ retrieved_hits = <<>> /\ reranked_hits = <<>>
    /\ context_hits = <<>> /\ answer = "" /\ response = <<>>
    /\ invoked = <<>> /\ calls = <<>>
    /\ runs = <<>>

InitChunk == InitChunkWith(Docs(MaxPages))
InitSinglePage == InitChunkWith(SinglePageDocs(1))

\* create_chunks(pages, chunk_size, overlap)
CreateChunks ==
    /\ chunked = NotCalled
    /\ chunked' = create_chunks(pages, chunk_size, overlap)
    /\ UNCHANGED <<pages, chunk_size, overlap, records, index, requestVars, chatVars, runs>>

\* ingest_document(file_path) on a PDF whose reader gives `pages`
IngestDocument ==
    /\ records = NotCalled
    /\ records' = [status |-> "returned",
                   records |-> ingest_document(<<"d">>, pages)]
    /\ UNCHANGED <<pages, chunk_size, overlap, chunked, index, requestVars, chatVars, runs>>

NextChunk == CreateChunks \/ IngestDocument

SpecChunk == InitChunk /\ [][NextChunk]_vars
SpecSinglePage == InitSinglePage /\ [][NextChunk]_vars

\* ------------------------------------------------------- the vector index
\* Two small PDFs; ingest_document gives three records for "a", one for "b".
FileA == [file_name |-> <<"a">>,
          reader |-> <<[page_number |-> 1, text |-> <<"a", "b", " ", "a", "b">>],
                       [page_number |-> 2, text |-> <<"b", "a">>]>>]
FileB == [file_name |-> <<"b">>,
          reader |-> <<[page_number |-> 1, text |-> <<"b", " ", "a">>]>>]
Files == {FileA, FileB}

RecordsOf(f) == ingest_document(f.file_name, f.reader)

\* The record upsert_chunks sends for rec (embedding.py:80-88).
PineconeRecord(rec) ==
    [_id |-> rec.id, chunk_text |-> rec.chunk_text,
     source |-> rec.source, pages |-> rec.pages]

StoredOf(fs) == UNION {{PineconeRecord(RecordsOf(f)[k]) : k \in 1..Len(RecordsOf(f))} : f \in fs}

\* Every order of the members of S.
Orders(S) ==
    {f \in [1..Cardinality(S) -> S] : \A i, j \in 1..Cardinality(S) : f[i] = f[j] => i = j}

\* The item the service returns for a stored record at position i of a result.
Item(r, i) ==
    [_id |-> r._id, _score |-> 0 - i,
     fields |-> [chunk_text |-> r.chunk_text, source |-> r.source, pages |-> r.pages]]

\* index.search(query = {top_k, inputs}): the first top_k records in the
\* service's relevance order; a top_k below 1 is outside the service's
\* contract (it rejects the request or answers with no hits).
ServiceSearch(k) ==
    IF k < 1 THEN {<<>>}
    ELSE {[i \in 1..Min(k, Len(ranking)) |-> Item(ranking[i], i)]}

\* index.search(query = {top_k, inputs}, rerank = {top_n, ...}): the service
\* takes the same first top_k candidates, reorders them by its rerank model
\* (any order) and returns the first top_n of them.
ServiceRerank(k, n) ==
    LET cand == {ranking[i] : i \in 1..Min(k, Len(ranking))}
        m == Min(n, Cardinality(cand))
    IN {[i \in 1..m |-> Item(f[i], i)] :
          f \in {g \in [1..m -> cand] : \A i, j \in 1..m : g[i] = g[j] => i = j}}

\* ------------------------------------------------ retrieval.py, reranker.py
HasIndexCall == [call |-> "has_index"]
SearchCall(q, k) == [call |-> "index.search", text |-> q, top_k |-> k]
RerankCall(q, k, n) ==
    [call |-> "index.search+rerank", text |-> q, top_k |-> k, top_n |-> n]
InvokeCall(q, chunks) ==
    [call |-> "llm.invoke", text |-> q, context |-> chunks]

\* The hit dict built from a result item (retrieval.py:36-49, reranker.py:51-64).
Hit(item) ==
    [id |-> item._id, score |-> item._score,
     chunk_text |-> item.fields.chunk_text,
     source |-> item.fields.source, pages |-> item.fields.pages]
Hits(items) == [i \in 1..Len(items) |-> Hit(items[i])]

Outcome(status, hits, made) == [status |-> status, hits |-> hits, calls |-> made]

\* What an index lookup can give once the query is known not to be blank:
\* has_index raises; the index is missing (ValueError); the search raises; or
\* the hits of one of `results`.
Lookup(request, results) ==
    {Outcome("Exception", <<>>, <<HasIndexCall>>)}
    \cup (IF ~index.exists
          THEN {Outcome("ValueError", <<>>, <<HasIndexCall>>)}
          ELSE {Outcome("Exception", <<>>, <<HasIndexCall, request>>)}
               \cup {Outcome("returned", Hits(items), <<HasIndexCall, request>>) :
                       items \in results})

\* search(query, top_k): every outcome the call can have.
search(query, k) ==
    LET q == Strip(query)
    IN IF q = <<>> THEN {Outcome("returned", <<>>, <<>>)}
       ELSE Lookup(SearchCall(q, k), ServiceSearch(k))

\* rerank without the clamp of top_n to top_k.
rerank_unclamped(query, k, n) ==
    LET q == Strip(query)
    IN IF q = <<>> \/ k <= 0 \/ n <= 0 THEN {Outcome("returned", <<>>, <<>>)}
       ELSE Lookup(RerankCall(q, k, n), ServiceRerank(k, n))

\* rerank(query, top_k, top_n): every outcome the call can have.
rerank(query, k, n) ==
    LET q == Strip(query)
    IN IF q = <<>> \/ k <= 0 \/ n <= 0 THEN {Outcome("returned", <<>>, <<>>)}
       ELSE LET clamped == Min(n, k)
            IN Lookup(RerankCall(q, k, clamped), ServiceRerank(k, clamped))

\* ------------------------------------------------------------ generation.py
QuestionIsEmpty == "Question is empty."
NotEnoughInformation == "I don't have enough information to answer that."
\* What the generation service can write: some answer, or (as the system
\* prompt tells it to) the not-enough-information sentence.
Generated == {"generated answer", NotEnoughInformation}

\* build_context_block(chunks): one labelled part per chunk, in order.
build_context_block(chunks) ==
    [i \in 1..Len(chunks) |->
       [label |-> i, source |-> chunks[i].source,
        pages |-> chunks[i].pages, text |-> chunks[i].chunk_text]]

Answered(status, text, made) == [status |-> status, answer |-> text, calls |-> made]

\* generate_answer with the credential check ahead of the empty-context check.
generate_answer_key_first(query, chunks) ==
    LET q == Strip(query)
    IN IF q = <<>> THEN {Answered("returned", QuestionIsEmpty, <<>>)}
       ELSE IF ~api_key THEN {Answered("ValueError", "", <<>>)}
       ELSE IF chunks = <<>> THEN {Answered("returned", NotEnoughInformation, <<>>)}
       ELSE LET made == <<InvokeCall(q, build_context_block(chunks))>>
            IN {Answered("Exception", "", made)}
               \cup {Answered("returned", a, made) : a \in Generated}

\* generate_answer that tests the question as given, without strip().
generate_answer_unstripped(query, chunks) ==
    IF query = <<>> THEN {Answered("returned", QuestionIsEmpty, <<>>)}
    ELSE IF chunks = <<>> THEN {Answered("returned", NotEnoughInformation, <<>>)}
    ELSE IF ~api_key THEN {Answered("ValueError", "", <<>>)}
    ELSE LET made == <<InvokeCall(Strip(query), build_context_block(chunks))>>
         IN {Answered("Exception", "", made)}
            \cup {Answered("returned", a, made) : a \in Generated}

\* generate_answer(query, chunks): every outcome the call can have.
generate_answer(query, chunks) ==
    LET q == Strip(query)
    IN IF q = <<>> THEN {Answered("returned", QuestionIsEmpty, <<>>)}
       ELSE IF chunks = <<>> THEN {Answered("returned", NotEnoughInformation, <<>>)}
       ELSE IF ~api_key THEN {Answered("ValueError", "", <<>>)}
       ELSE LET made == <<InvokeCall(q, build_context_block(chunks))>>
            IN {Answered("Exception", "", made)}
               \cup {Answered("returned", a, made) : a \in Generated}

\* ------------------------------------------------------ api.py chat_endpoint
\* _hits_to_source_chunks(hits)
HitsToSourceChunks(hits) ==
    [i \in 1..Len(hits) |->
       [id |-> hits[i].id, score |-> hits[i].score, source |-> hits[i].source,
        pages |-> hits[i].pages, chunk_text |-> hits[i].chunk_text,
        citation |-> hits[i].source \o <<",", " ", "p", ".">> \o hits[i].pages]]

\* except ValueError -> 400; except Exception -> 500
HttpError(status) ==
    [status_code |-> IF status = "ValueError" THEN 400 ELSE 500]

Questions == UNION {[1..k -> {"q", " "}] : k \in 0..MaxQuestionLen}

InitChat ==
    /\ pages = <<>> /\ chunk_size = CHUNK_SIZE /\ overlap = CHUNK_OVERLAP
    /\ chunked = NotCalled /\ records = NotCalled
    /\ index \in {[exists |-> FALSE, records |-> {}]}
                 \cup {[exists |-> TRUE, records |-> StoredOf(fs)] : fs \in SUBSET Files}
    /\ ranking \in Orders(index.records)
    /\ question \in Questions
    /\ use_reranker \in BOOLEAN
    /\ top_k \in -1..MaxTopK
    /\ top_n \in -1..MaxTopN
    /\ debug \in BOOLEAN
    /\ api_key \in BOOLEAN
    /\ pc = "retrieve"
    /\ retrieved_hits = <<>> /\ reranked_hits = <<>> /\ context_hits = <<>>
    /\ answer = "" /\ response = <<>>
    /\ invoked = <<>> /\ calls = <<>>
    /\ runs = <<>>

\* An exception leaves chat_endpoint through its except clauses.
Raise(status) ==
    /\ pc' = "failed"
    /\ response' = HttpError(status)

\* retrieved_hits = search(request.question, top_k=request.top_k)
Retrieve ==
    /\ pc = "retrieve"
    /\ \E out \in search(question, top_k) :
         /\ invoked' = Append(invoked, "search")
         /\ calls' = calls \o out.calls
         /\ IF out.status = "returned"
            THEN /\ retrieved_hits' = out.hits
                 /\ pc' = "rerank"
                 /\ UNCHANGED response
            ELSE /\ Raise(out.status)
                 /\ UNCHANGED retrieved_hits
    /\ UNCHANGED <<reranked_hits, context_hits, answer>>
    /\ UNCHANGED <<chunkVars, index, requestVars, runs>>

\* if request.use_reranker: reranked_hits = rerank(...); context_hits = reranked_hits
Rerank ==
    /\ pc = "rerank"
    /\ use_reranker
    /\ \E out \in rerank(question, top_k, top_n) :
         /\ invoked' = Append(invoked, "rerank")
         /\ calls' = calls \o out.calls
         /\ IF out.status = "returned"
            THEN /\ reranked_hits' = <<out.hits>>
                 /\ context_hits' = out.hits
                 /\ pc' = "generate"
                 /\ UNCHANGED response
            ELSE /\ Raise(out.status)
                 /\ UNCHANGED <<reranked_hits, context_hits>>
    /\ UNCHANGED <<retrieved_hits, answer>>
    /\ UNCHANGED <<chunkVars, index, requestVars, runs>>

\* chat_endpoint's choice of context with the reranked hits dropped.
SkipRerankAlways ==
    /\ pc = "rerank"
    /\ reranked_hits' = <<>>
    /\ context_hits' = retrieved_hits
    /\ pc' = "generate"
    /\ UNCHANGED <<retrieved_hits, answer, response, invoked, calls>>
    /\ UNCHANGED <<chunkVars, index, requestVars, runs>>

\* else: reranked_hits = None; context_hits = retrieved_hits
SkipRerank ==
    /\ pc = "rerank"
    /\ ~use_reranker
    /\ reranked_hits' = <<>>
    /\ context_hits' = retrieved_hits
    /\ pc' = "generate"
    /\ UNCHANGED <<retrieved_hits, answer, response, invoked, calls>>
    /\ UNCHANGED <<chunkVars, index, requestVars, runs>>

\* answer = generate_answer(request.question, context_hits)
Generate ==
    /\ pc = "generate"
    /\ \E out \in generate_answer(question, context_hits) :
         /\ invoked' = Append(invoked, "generate_answer")
         /\ calls' = calls \o out.calls
         /\ IF out.status = "returned"
            THEN /\ answer' = out.answer
                 /\ pc' = "respond"
                 /\ UNCHANGED response
            ELSE /\ Raise(out.status)
                 /\ UNCHANGED answer
    /\ UNCHANGED <<retrieved_hits, reranked_hits, context_hits>>
    /\ UNCHANGED <<chunkVars, index, requestVars, runs>>

\* The ChatResponse, with the debug lists when asked for.
Respond ==
    /\ pc = "respond"
    /\ response' =
         [status_code |-> 200,
          answer |-> answer,
          source_chunks |-> HitsToSourceChunks(context_hits),
          retrieved |-> IF debug THEN <<HitsToSourceChunks(retrieved_hits)>> ELSE <<>>,
          reranked |-> IF debug /\ reranked_hits # <<>>
                       THEN <<HitsToSourceChunks(reranked_hits[1])>> ELSE <<>>]
    /\ pc' = "done"
    /\ UNCHANGED <<retrieved_hits, reranked_hits, context_hits, answer, invoked, calls>>
    /\ UNCHANGED <<chunkVars, index, requestVars, runs>>

NextChat == Retrieve \/ Rerank \/ SkipRerank \/ Generate \/ Respond

SpecChat == InitChat /\ [][NextChat]_vars

\* ------------------------------------------------------------- embedding.py
Runs == 1..NumRuns

IdleRun ==
    [pc |-> "idle", source |-> <<>>, recs |-> <<>>, i |-> 0, total |-> 0,
     result |-> 0, checks |-> 0, upserts |-> 0,
     \* what held when the de-duplication check was made
     present |-> FALSE, check_raised |-> FALSE]

InitIngest ==
    /\ pages = <<>> /\ chunk_size = CHUNK_SIZE /\ overlap = CHUNK_OVERLAP
    /\ chunked = NotCalled /\ records = NotCalled
    /\ question = <<>> /\ use_reranker = FALSE /\ top_k = 0 /\ top_n = 0
    /\ debug = FALSE /\ api_key = FALSE /\ ranking = <<>>
    /\ pc = "idle" /\ retrieved_hits = <<>> /\ reranked_hits = <<>>
    /\ context_hits = <<>> /\ answer = "" /\ response = <<>>
    /\ invoked = <<>> /\ calls = <<>>
    /\ index \in {[exists |-> FALSE, records |-> {}]}
                 \cup {[exists |-> TRUE, records |-> StoredOf(fs)] : fs \in SUBSET Files}
    /\ runs = [r \in Runs |-> IdleRun]

\* _get_or_create_index(): the index as it is afterwards.
GetOrCreateIndex(idx) ==
    IF ~idx.exists THEN [exists |-> TRUE, records |-> {}] ELSE idx

\* index.search(query = {top_k: 1, inputs: {text: source}}, fields = [source]):
\* the one record the service finds nearest to the text, which can be any
\* record of the index; no hit when the index is empty.
ServiceTop1(idx) ==
    IF idx.records = {} THEN {<<>>}
    ELSE {<<[fields |-> [source |-> r.source]]>> : r \in idx.records}

\* is_file_ingested(source) from its search result on.
HitMatches(hits, source) ==
    \E i \in 1..Len(hits) : hits[i].fields.source = source

\* index.upsert_records(namespace, batch): a record replaces the one of its _id.
UpsertRecords(stored, batch) ==
    {r \in stored : \A k \in 1..Len(batch) : batch[k]._id # r._id}
    \cup {batch[k] : k \in 1..Len(batch)}

\* records[i:i+batch_size] as pinecone records.
Batch(recs, i) ==
    LET part == Slice(recs, i, i + BatchSize)
    IN [k \in 1..Len(part) |-> PineconeRecord(part[k])]

OtherVars == <<chunkVars, requestVars, chatVars>>

\* ingest_document(file_path), then upsert_chunks(records) up to its call of
\* is_file_ingested: no records -> return 0.
Begin(r) ==
    /\ runs[r].pc = "idle"
    /\ \E f \in Files :
         LET recs == RecordsOf(f)
         IN runs' = [runs EXCEPT ![r] =
                [@ EXCEPT !.recs = recs,
                          !.source = IF recs = <<>> THEN <<>> ELSE recs[1].source,
                          !.pc = IF recs = <<>> THEN "returned"
                                 ELSE IF recs[1].source = <<>> THEN "upsert"
                                 ELSE "check"]]
    /\ UNCHANGED <<index, OtherVars>>

\* is_file_ingested(source) finds a hit of that source: upsert_chunks returns 0.
CheckFound(r) ==
    /\ runs[r].pc = "check"
    /\ LET idx == GetOrCreateIndex(index)
       IN /\ \E hits \in ServiceTop1(idx) : HitMatches(hits, runs[r].source)
          /\ index' = idx
          /\ runs' = [runs EXCEPT ![r] =
                 [@ EXCEPT !.pc = "returned", !.result = 0, !.checks = @ + 1,
                           !.present = \E s \in idx.records : s.source = runs[r].source]]
    /\ UNCHANGED OtherVars

\* is_file_ingested(source) finds no hit of that source and returns False.
CheckNotFound(r) ==
    /\ runs[r].pc = "check"
    /\ LET idx == GetOrCreateIndex(index)
       IN /\ \E hits \in ServiceTop1(idx) : ~HitMatches(hits, runs[r].source)
          /\ index' = idx
          /\ runs' = [runs EXCEPT ![r] =
                 [@ EXCEPT !.pc = "upsert", !.checks = @ + 1,
                           !.present = \E s \in idx.records : s.source = runs[r].source]]
    /\ UNCHANGED OtherVars

\* index.search raises inside is_file_ingested: the except clause returns False.
CheckRaised(r) ==
    /\ runs[r].pc = "check"
    /\ LET idx == GetOrCreateIndex(index)
       IN /\ index' = idx
          /\ runs' = [runs EXCEPT ![r] =
                 [@ EXCEPT !.pc = "upsert", !.checks = @ + 1, !.check_raised = TRUE,
                           !.present = \E s \in idx.records : s.source = runs[r].source]]
    /\ UNCHANGED OtherVars

\* One round of the batch loop: index.upsert_records, total += len(batch);
\* after the last batch upsert_chunks returns total.
UpsertBatch(r) ==
    /\ runs[r].pc = "upsert"
    /\ LET idx == GetOrCreateIndex(index)
           batch == Batch(runs[r].recs, runs[r].i)
           next == runs[r].i + BatchSize
       IN /\ index' = [idx EXCEPT !.records = UpsertRecords(@, batch)]
          /\ runs' = [runs EXCEPT ![r] =
                 [@ EXCEPT !.i = next,
                           !.total = @ + Len(batch),
                           !.upserts = @ + 1,
                           !.pc = IF next < Len(runs[r].recs) THEN "upsert" ELSE "returned",
                           !.result = IF next < Len(runs[r].recs) THEN @
                                      ELSE runs[r].total + Len(batch)]]
    /\ UNCHANGED OtherVars

\* index.upsert_records raises: upsert_chunks ends with the exception.
UpsertRaised(r) ==
    /\ runs[r].pc = "upsert"
    /\ index' = GetOrCreateIndex(index)
    /\ runs' = [runs EXCEPT ![r] = [@ EXCEPT !.pc = "failed"]]
    /\ UNCHANGED OtherVars

NextIngest ==
    \E r \in Runs :
        \/ Begin(r)
        \/ CheckFound(r)
        \/ CheckNotFound(r)
        \/ CheckRaised(r)
        \/ UpsertBatch(r)
        \/ UpsertRaised(r)

SpecIngest == InitIngest /\ [][NextIngest]_vars

\* ================================================================== claims
\* ------------------------------------------------------------ chunking
Step == chunk_size - overlap
CeilDiv(a, b) == (a + b - 1) \div b

\* The case of C1: create_chunks returned for 0 <= overlap < chunk_size over a
\* single page whose normalized text is not empty.
SinglePageChunked ==
    /\ Len(pages) = 1
    /\ chunked.status = "returned"
    /\ overlap < chunk_size
    /\ clean_text(pages[1].text) # <<>>

\* The first (chunk_size - overlap) characters of chunks k.., the last one whole.
RECURSIVE NonOverlapping(_, _)
NonOverlapping(chunks, k) ==
    IF k > Len(chunks) THEN <<>>
    ELSE IF k = Len(chunks) THEN chunks[k].chunk_text
    ELSE Slice(chunks[k].chunk_text, 0, Step) \o NonOverlapping(chunks, k + 1)

CountAndReconstruct ==
    LET text == clean_text(pages[1].text)
        chunks == chunked.chunks
    IN /\ Len(chunks) = CeilDiv(Len(text), Step)
       /\ \A k \in 1..Len(chunks) : Len(chunks[k].chunk_text) <= chunk_size
       /\ NonOverlapping(chunks, 1) = text

\* C1 as stated: ceil(L / (c - o)) chunks, none longer than c, only the last
\* one shorter than c, and the non-overlapping parts rebuild the normalized text.
C1_OnlyLastShorter ==
    SinglePageChunked =>
        /\ CountAndReconstruct
        /\ \A k \in 1..(Len(chunked.chunks) - 1) :
              Len(chunked.chunks[k].chunk_text) = chunk_size

\* C1 (amended): ceil(L / (c - o)) chunks, none longer than c, the k-th chunk
\* (from 0) holds min(c, L - k * (c - o)) characters, so every chunk whose
\* window passes the end of the text is shorter than c (with overlap > 0 that
\* can be several trailing chunks), and the non-overlapping parts rebuild the
\* normalized text.
C1_ChunkCountAndReconstruction ==
    SinglePageChunked =>
        /\ CountAndReconstruct
        /\ \A k \in 1..Len(chunked.chunks) :
              Len(chunked.chunks[k].chunk_text) =
                  Min(chunk_size, Len(clean_text(pages[1].text)) - (k - 1) * Step)

\* Witness of C1: a single page chunked with overlap, three chunks or more, the
\* last two shorter than chunk_size.
C1_Witness ==
    /\ SinglePageChunked
    /\ overlap > 0
    /\ Len(chunked.chunks) >= 3
    /\ Len(chunked.chunks[Len(chunked.chunks) - 1].chunk_text) < chunk_size
    /\ Len(chunked.chunks[1].chunk_text) = chunk_size

\* C2: create_chunks called with overlap >= chunk_size always ends in an error
\* and never returns a chunk sequence.
C2_OverlapRejected ==
    (chunked.status # "none" /\ overlap >= chunk_size) =>
        chunked.status = "ValueError"

\* The ascending order of a set of numbers.
RECURSIVE Ascending(_)
Ascending(S) ==
    IF S = {} THEN <<>>
    ELSE LET m == CHOOSE x \in S : \A y \in S : x <= y
         IN <<m>> \o Ascending(S \ {m})

Range(f) == {f[x] : x \in DOMAIN f}

\* C3: every record of ingest_document lists the distinct page numbers of its
\* chunk's window once each, comma-joined in ascending numeric order.
C3_PagesAscending ==
    records.status = "returned" =>
        LET cat == ConcatPages(extract_pages_from_pdf(pages), 1, <<>>, <<>>)
            step == CHUNK_SIZE - CHUNK_OVERLAP
        IN \A k \in 1..Len(records.records) :
             records.records[k].pages =
                 JoinPages(Ascending(Range(
                     Slice(cat.page_map, (k - 1) * step, (k - 1) * step + CHUNK_SIZE))))

\* The pages whose normalized text is not empty, in order.
TextPages == SelectSeq(pages, LAMBDA p : clean_text(p.text) # <<>>)

\* The position (from 1) in the concatenated text of the separator that
\* follows the j-th page with text.
RECURSIVE SeparatorPos(_)
SeparatorPos(j) ==
    IF j = 0 THEN 0
    ELSE SeparatorPos(j - 1) + Len(clean_text(TextPages[j].text)) + 1

\* C4: the page map is as long as the concatenated text; the separator after a
\* page is attributed to that (preceding) page; so a chunk that covers text of
\* one page and ends on the separator after it reports that page alone.
C4_SeparatorPrecedingPage ==
    chunked.status = "returned" =>
        /\ Len(chunked.page_map) = Len(chunked.full_text)
        /\ \A j \in 1..(Len(TextPages) - 1) :
              chunked.page_map[SeparatorPos(j)] = TextPages[j].page_number
        /\ \A j \in 1..(Len(TextPages) - 1) : \A k \in 1..Len(chunked.chunks) :
              LET first == (k - 1) * Step + 1
                  last == first + chunk_size - 1
              IN (last = SeparatorPos(j) /\ first > SeparatorPos(j - 1))
                     => chunked.chunks[k].page_numbers = <<TextPages[j].page_number>>

\* The part of C4 that the code keeps: the page map and the text have one length.
C4_LengthsAgree ==
    chunked.status = "returned" => Len(chunked.page_map) = Len(chunked.full_text)

\* ------------------------------------------------------------ /chat flow
Blank == Strip(question) = <<>>
Ids(hits) == {hits[i].id : i \in 1..Len(hits)}
CallsNamed(name) == {i \in 1..Len(calls) : calls[i].call = name}
Last(seq) == seq[Len(seq)]

\* The case of C5: chat_endpoint has run search and rerank on the same
\* question and top_k against the one index, and rerank returned.
RerankReturned == reranked_hits # <<>>

SentTopNClamped ==
    \A i \in CallsNamed("index.search+rerank") :
        calls[i].top_n = Min(top_n, top_k) /\ calls[i].top_k = top_k

\* C5 as stated: for all integers k, n rerank returns at most min(n, k) hits,
\* its request carries top_n = min(n, k), and every id it returns is among
\* those search returns.
C5_AtMostMinHits ==
    RerankReturned =>
        /\ Len(reranked_hits[1]) <= Min(top_n, top_k)
        /\ SentTopNClamped
        /\ Ids(reranked_hits[1]) \subseteq Ids(retrieved_hits)

\* C5 (amended): rerank returns at most max(0, min(n, k)) hits: for k <= 0 or
\* n <= 0 it returns none and sends no request (min(n, k) is then no hit
\* count); a request it sends carries top_n = min(n, k); every id it returns
\* is among those search returns.
C5_RerankBoundedSubset ==
    RerankReturned =>
        /\ Len(reranked_hits[1]) <= Max(0, Min(top_n, top_k))
        /\ SentTopNClamped
        /\ (top_k <= 0 \/ top_n <= 0) => CallsNamed("index.search+rerank") = {}
        /\ Ids(reranked_hits[1]) \subseteq Ids(retrieved_hits)

\* Witness of C5: top_n above top_k, a rerank request sent, top_k hits back.
C5_Witness ==
    /\ RerankReturned
    /\ top_k >= 1 /\ top_n > top_k
    /\ CallsNamed("index.search+rerank") # {}
    /\ Len(reranked_hits[1]) = top_k

\* C6: for a blank question the /chat flow never fails, makes no external
\* call, and answers exactly "Question is empty.".
C6_BlankQuestion ==
    Blank =>
        /\ calls = <<>>
        /\ pc # "failed"
        /\ pc \in {"respond", "done"} => answer = QuestionIsEmpty
        /\ pc = "done" => response.answer = QuestionIsEmpty

\* Witness of C6: a whitespace-only question answered with the reranker on, no
\* index and no credential.
C6_Witness ==
    /\ question # <<>> /\ Blank
    /\ pc = "done"
    /\ use_reranker /\ ~index.exists /\ ~api_key

\* generate_answer has been entered with the context chat_endpoint selected.
ContextSelected ==
    \/ pc \in {"generate", "respond", "done"}
    \/ pc = "failed" /\ Last(invoked) = "generate_answer"

\* C7: for a non-blank question and an empty selected context the flow answers
\* exactly the not-enough-information sentence, never calls the generation
\* service and does not fail, credential or not.
C7_EmptyContext ==
    (~Blank /\ ContextSelected /\ context_hits = <<>>) =>
        /\ CallsNamed("llm.invoke") = {}
        /\ pc # "failed"
        /\ pc \in {"respond", "done"} => answer = NotEnoughInformation
        /\ pc = "done" =>
              response.answer = NotEnoughInformation /\ response.status_code = 200

\* Witness of C7: search found hits, rerank returned none, no credential, and
\* the flow is done.
C7_Witness ==
    /\ ~Blank /\ pc = "done"
    /\ use_reranker /\ retrieved_hits # <<>> /\ context_hits = <<>>
    /\ ~api_key

IsPrefix(p, q) == Len(p) <= Len(q) /\ p = SubSeq(q, 1, Len(p))

PipelineOrder ==
    IF use_reranker THEN <<"search", "rerank", "generate_answer">>
    ELSE <<"search", "generate_answer">>

\* C8: the functions chat_endpoint invokes are search, then rerank exactly
\* when use_reranker is set, then generate_answer, each once and in that
\* order; the generation service is called at most once and after every index
\* call; the context that goes to generation and back to the caller is
\* reranked_hits when use_reranker is set and retrieved_hits otherwise.
C8_LinearPipeline ==
    /\ IsPrefix(invoked, PipelineOrder)
    /\ pc \in {"respond", "done"} => invoked = PipelineOrder
    /\ Cardinality(CallsNamed("llm.invoke")) <= 1
    /\ \A i \in CallsNamed("llm.invoke") :
          /\ i = Len(calls)
          /\ Last(invoked) = "generate_answer"
          /\ calls[i].context = build_context_block(context_hits)
    /\ ContextSelected =>
          /\ use_reranker => reranked_hits # <<>> /\ context_hits = reranked_hits[1]
          /\ ~use_reranker => reranked_hits = <<>> /\ context_hits = retrieved_hits
    /\ pc = "done" => response.source_chunks = HitsToSourceChunks(context_hits)

\* Witness of C8: a finished run with the reranker on, the generation service
\* called, and a reranked context that differs from the retrieved hits.
C8_Witness ==
    /\ pc = "done" /\ use_reranker
    /\ CallsNamed("llm.invoke") # {}
    /\ context_hits # retrieved_hits
    /\ Len(context_hits) = Len(retrieved_hits)

\* -------------------------------------------------------- ingestion runs
Checked(r) == runs[r].checks > 0

\* C9 (for a de-duplication search that did not raise): upsert_chunks makes
\* one check before any upsert; when the index holds a record of the records'
\* source at that check it issues no upsert and returns 0, whatever else the
\* index holds; and it skips only a source that is present.
C9_ExactSourceCheck ==
    \A r \in Runs :
        (Checked(r) /\ ~runs[r].check_raised) =>
            /\ runs[r].checks = 1
            /\ runs[r].present =>
                  /\ runs[r].upserts = 0
                  /\ runs[r].pc = "returned" => runs[r].result = 0
            /\ (runs[r].pc = "returned" /\ runs[r].upserts = 0) => runs[r].present

\* The part of C9 that the code keeps: one check, made before any upsert, and
\* no skip of a source that is absent.
C9_NoFalseSkip ==
    \A r \in Runs :
        /\ runs[r].upserts > 0 => runs[r].checks = 1
        /\ (Checked(r) /\ runs[r].pc = "returned" /\ runs[r].upserts = 0)
               => runs[r].present

SourcesBegun == {runs[r].source : r \in {q \in Runs : runs[q].pc # "idle"}}
FileNamed(s) == CHOOSE f \in Files : f.file_name = s
StoredWithSource(stored, s) == {x \in stored : x.source = s}
AllReturned == \A r \in Runs : runs[r].pc = "returned"

\* Once every run has returned, the index holds for each ingested source
\* exactly the records one run writes: one per chunk id, nothing else.
RaceIsBenign ==
    AllReturned =>
        \A s \in SourcesBegun :
            /\ StoredWithSource(index.records, s) = StoredOf({FileNamed(s)})
            /\ \A x, y \in StoredWithSource(index.records, s) : x._id = y._id => x = y
            /\ {x._id : x \in StoredWithSource(index.records, s)}
                   = {<<s, i>> : i \in 1..Len(RecordsOf(FileNamed(s)))}

\* A step of a run leaves the records of every other source as they were.
OtherSourcesKept ==
    \A r \in Runs :
        runs'[r] # runs[r] =>
            \A s \in {x.source : x \in index.records} \ {runs'[r].source} :
                StoredWithSource(index'.records, s) = StoredWithSource(index.records, s)

\* C10: under every interleaving of the checks and batched upserts of
\* concurrent runs, once the runs have returned the index holds for each
\* source exactly one record per chunk id with the content a single run
\* writes, and a run never alters the records of another source.
C10_BenignRace == [](RaceIsBenign) /\ [][OtherSourcesKept]_vars

\* Witness of C10: two runs of source "a" have both passed the check (no
\* record of "a" was found, none raised) and both upserted every batch.
C10_Witness ==
    /\ AllReturned
    /\ \A r \in Runs :
          /\ runs[r].source = <<"a">>
          /\ ~runs[r].check_raised /\ ~runs[r].present
          /\ runs[r].upserts >= 2

\* ------------------------------------------------------ failure propagation
\* C11: a failed external call ends its operation as a failure: the /chat
\* flow answers with an HTTP error and goes no further, and an ingestion run
\* whose de-duplication search raised issues no upsert and does not return
\* normally.
C11_FailuresPropagate ==
    /\ pc = "failed" => response.status_code \in {400, 500}
    /\ \A r \in Runs :
          runs[r].check_raised => runs[r].upserts = 0 /\ runs[r].pc # "returned"

\* The part of C11 that the code keeps for upserts: a run whose upsert raised
\* has failed, and a failed run is not resumed.
C11_UpsertFailureEndsRun ==
    [][\A r \in Runs : runs[r].pc = "failed" => runs'[r] = runs[r]]_vars

====
